---- MODULE Spec2Model ----
(***************************************************************************)
(* Model of the Baymax Assistant retrieval pipeline:                       *)
(*   server/rag_build.py  - load_kb, flatten_kb, load_mb, flatten_mb,      *)
(*                          build_index (the Index Builder)                *)
(*   server/app.py        - retrieve_context, build_rag_prompt,            *)
(*                          rag_endpoint, chat_endpoint (the serving path) *)
(* The persisted Chroma collection "health_kb" is the shared state; the    *)
(* builders and the serving requests are processes whose steps interleave  *)
(* at their external effects (index calls, file reads, remote calls).      *)
(***************************************************************************)
EXTENDS Integers, Sequences, FiniteSets, TLC

(***************************************************************************)
(* JSON / Python values.  A value read by json.load is a tagged record;    *)
(* a dict keeps its items in insertion order, as Python does.              *)
(***************************************************************************)
JNull == [t |-> "null"]
JBool(b) == [t |-> "bool", b |-> b]
JNum(n) == [t |-> "num", n |-> n]
JStr(s) == [t |-> "str", s |-> s]
JList(l) == [t |-> "list", l |-> l]
JDict(d) == [t |-> "dict", d |-> d]
KV(k, v) == [k |-> k, v |-> v]

IsStr(v) == v.t = "str"
IsList(v) == v.t = "list"
IsDict(v) == v.t = "dict"

\* dict.get(key, default): the value of the first item with that key.
HasKey(d, key) == \E i \in 1..Len(d.d) : d.d[i].k = key
Get(d, key, default) ==
    IF HasKey(d, key)
    THEN d.d[CHOOSE i \in 1..Len(d.d) : d.d[i].k = key /\ \A j \in 1..(i-1) : d.d[j].k # key].v
    ELSE default

\* d[key] = value: replaces in place, or appends a new item.
SetKey(d, key, value) ==
    IF HasKey(d, key)
    THEN JDict([i \in 1..Len(d.d) |-> IF d.d[i].k = key THEN KV(key, value) ELSE d.d[i]])
    ELSE JDict(Append(d.d, KV(key, value)))

\* Python truthiness ("if not text", "if sources").
Truthy(v) ==
    CASE v.t = "null" -> FALSE
      [] v.t = "bool" -> v.b
      [] v.t = "num"  -> v.n # 0
      [] v.t = "str"  -> v.s # ""
      [] v.t = "list" -> Len(v.l) > 0
      [] v.t = "dict" -> Len(v.d) > 0

\* sep.join(parts) on a sequence of strings.
RECURSIVE JoinStr(_, _)
JoinStr(sep, parts) ==
    IF Len(parts) = 0 THEN ""
    ELSE IF Len(parts) = 1 THEN parts[1]
    ELSE parts[1] \o sep \o JoinStr(sep, Tail(parts))

\* repr(v) and str(v) / f"{v}" of a JSON value.
RECURSIVE PyRepr(_)
PyRepr(v) ==
    CASE v.t = "null" -> "None"
      [] v.t = "bool" -> IF v.b THEN "True" ELSE "False"
      [] v.t = "num"  -> ToString(v.n)
      [] v.t = "str"  -> "'" \o v.s \o "'"
      [] v.t = "list" -> "[" \o JoinStr(", ", [i \in 1..Len(v.l) |-> PyRepr(v.l[i])]) \o "]"
      [] v.t = "dict" -> "{" \o JoinStr(", ", [i \in 1..Len(v.d) |->
                                 "'" \o v.d[i].k \o "': " \o PyRepr(v.d[i].v)]) \o "}"

PyStr(v) == IF IsStr(v) THEN v.s ELSE PyRepr(v)

\* ", ".join(sources) raises TypeError unless every element is a str.
AllStr(v) == \A i \in 1..Len(v.l) : IsStr(v.l[i])
JoinSources(v) == JoinStr(", ", [i \in 1..Len(v.l) |-> v.l[i].s])

(***************************************************************************)
(* Knowledge files on disk: missing, not parsable as JSON, or a JSON value *)
(***************************************************************************)
FileMissing == [st |-> "missing"]
FileUnparsable == [st |-> "unparsable"]
FileJson(j) == [st |-> "json", j |-> j]

\* load_kb: [] for a missing file and for any exception while reading it
\* (json.load failing, or data.get on a value that is not a dict).
load_kb(file) ==
    IF file.st = "missing" THEN JList(<<>>)
    ELSE IF file.st = "unparsable" THEN JList(<<>>)
    ELSE IF IsDict(file.j) THEN Get(file.j, "knowledge_base", JList(<<>>))
    ELSE JList(<<>>)

\* load_mb: [] for a missing file, an exception, or a value that is no list.
load_mb(file) ==
    IF file.st = "missing" THEN JList(<<>>)
    ELSE IF file.st = "unparsable" THEN JList(<<>>)
    ELSE IF ~IsList(file.j) THEN JList(<<>>)
    ELSE file.j

(***************************************************************************)
(* The Corpus Normalizer.  A generator's result is [raised, out]: whether  *)
(* consuming it raised, and the (text, metadata) pairs it yielded.         *)
(***************************************************************************)
Yield(out) == [raised |-> FALSE, out |-> out]
Raise == [raised |-> TRUE, out |-> <<>>]
Passage(text, meta) == [text |-> text, meta |-> meta]

\* The concatenation of a sequence of sequences, in order.
RECURSIVE FlatSeq(_)
FlatSeq(seqs) ==
    IF Len(seqs) = 0 THEN <<>>
    ELSE IF Len(seqs) = 1 THEN seqs[1]
    ELSE LET half == Len(seqs) \div 2
         IN  FlatSeq(SubSeq(seqs, 1, half)) \o FlatSeq(SubSeq(seqs, half + 1, Len(seqs)))

\* Consuming a generator that runs one loop body per element: it raises when
\* some body raises, and otherwise yields what the bodies yield, in order.
Consume(results) ==
    IF \E k \in 1..Len(results) : results[k].raised
    THEN Raise
    ELSE Yield(FlatSeq([k \in 1..Len(results) |-> results[k].out]))

\* text_parts for one section payload (rag_build.py lines 89-102).

\* Faulty variant: a sequence inside a mapping payload is written on one
\* line, like any other value.
text_parts_oneline(payload) ==
    IF IsDict(payload)
    THEN [i \in 1..Len(payload.d) |-> payload.d[i].k \o ": " \o PyStr(payload.d[i].v)]
    ELSE IF IsList(payload)
    THEN [j \in 1..Len(payload.l) |-> PyStr(payload.l[j])]
    ELSE << PyStr(payload) >>

text_parts(payload) ==
    IF IsDict(payload)
    THEN FlatSeq([i \in 1..Len(payload.d) |->
             LET k == payload.d[i].k
                 v == payload.d[i].v
             IN  IF IsList(v)
                 THEN [j \in 1..Len(v.l) |-> k \o ": " \o PyStr(v.l[j])]
                 ELSE << k \o ": " \o PyStr(v) >>])
    ELSE IF IsList(payload)
    THEN [j \in 1..Len(payload.l) |-> PyStr(payload.l[j])]
    ELSE << PyStr(payload) >>

\* Faulty variant: the isinstance test for a string is missing, and
\* ", ".join runs over the characters of a string.
kb_sources_str_joinall(sources) ==
    IF IsList(sources) THEN JoinSources(sources)
    ELSE IF IsStr(sources)
    THEN JoinStr(", ", [p \in 1..Len(sources.s) |-> SubSeq(sources.s, p, p)])
    ELSE PyStr(sources)

\* sources_str of flatten_kb (lines 108-112); only called when it cannot raise.
kb_sources_str(sources) ==
    IF IsList(sources) THEN JoinSources(sources)
    ELSE IF IsStr(sources) THEN sources.s
    ELSE PyStr(sources)

kb_sources_raises(sources) == IsList(sources) /\ ~AllStr(sources)

\* The passages of one topic (the body of the loop over topics).
kb_topic(topic) ==
    IF ~IsDict(topic) THEN Raise
    ELSE LET topic_id == Get(topic, "topic_id", JNull)
             topic_name == Get(topic, "topic_name", JNull)
             sources == Get(topic, "sources", JList(<<>>))
             data == Get(topic, "data", JDict(<<>>))
         IN  IF ~IsDict(data) THEN Yield(<<>>)
             ELSE IF Len(data.d) > 0 /\ kb_sources_raises(sources) THEN Raise
             ELSE Yield([i \in 1..Len(data.d) |->
                    LET section == data.d[i].k
                        header == "[" \o PyStr(topic_name) \o " / " \o section \o "]"
                        content == header \o "\n" \o JoinStr("\n", text_parts(data.d[i].v))
                    IN  Passage(content,
                                JDict(<< KV("topic_id", topic_id),
                                         KV("topic_name", topic_name),
                                         KV("section", JStr(section)),
                                         KV("sources", JStr(kb_sources_str(sources))) >>))])

kb_topics(seq) == Consume([k \in 1..Len(seq) |-> kb_topic(seq[k])])

\* flatten_kb(topics): "for topic in topics" over whatever load_kb returned.
flatten_kb(topics) ==
    CASE IsList(topics) -> kb_topics(topics.l)
      [] IsDict(topics) -> kb_topics([i \in 1..Len(topics.d) |-> JStr(topics.d[i].k)])
      [] IsStr(topics)  -> IF topics.s = "" THEN Yield(<<>>) ELSE Raise
      [] OTHER          -> Raise

\* One record of the flat source (the body of flatten_mb's loop).
mb_item(item) ==
    IF ~IsDict(item) THEN Raise
    ELSE LET text == Get(item, "chunk_text", JNull)
             meta == Get(item, "metadata", JDict(<<>>))
         IN  IF ~Truthy(text) \/ ~IsStr(text) THEN Yield(<<>>)
             ELSE IF ~IsDict(meta) THEN Raise
             ELSE LET sources == Get(meta, "sources", JNull)
                  IN  IF ~Truthy(sources) THEN Yield(<< Passage(text.s, meta) >>)
                      ELSE IF IsList(sources)
                      THEN IF AllStr(sources)
                           THEN Yield(<< Passage(text.s,
                                    SetKey(meta, "sources", JStr(JoinSources(sources)))) >>)
                           ELSE Raise
                      ELSE IF ~IsStr(sources)
                      THEN Yield(<< Passage(text.s,
                                    SetKey(meta, "sources", JStr(PyStr(sources)))) >>)
                      ELSE Yield(<< Passage(text.s, meta) >>)

mb_items(seq) == Consume([k \in 1..Len(seq) |-> mb_item(seq[k])])

\* flatten_mb(chunks): chunks is always a list (load_mb guarantees it).
flatten_mb(chunks) == mb_items(chunks.l)

(***************************************************************************)
(* Bounds of the model.                                                    *)
(***************************************************************************)
MaxBuilds == 3      \* build_index runs started in one behaviour
MaxEdits == 1       \* operator edits of the knowledge files
MaxRequests == 2    \* requests served in one behaviour
MaxBigDocs == 66    \* records of the largest generated flat source

Builders == {1, 2}  \* operator invocations of rag_build.py that may overlap

(***************************************************************************)
(* The knowledge files the operator may put on disk.                       *)
(***************************************************************************)
\* spec.md scenario 1: topic Demam, section gejala, plus a scalar section.
KbDemam ==
    FileJson(JDict(<< KV("knowledge_base", JList(<<
        JDict(<< KV("topic_id", JStr("T1")),
                 KV("topic_name", JStr("Demam")),
                 KV("sources", JList(<< JStr("WHO"), JStr("Kemenkes") >>)),
                 KV("data", JDict(<<
                     KV("gejala", JDict(<< KV("tanda",
                          JList(<< JStr("suhu tinggi"), JStr("lemas") >>)) >>)),
                     KV("saran", JStr("istirahat")) >>)) >>) >>)) >>))

\* A shorter structured source: one topic, one section.
KbBatuk ==
    FileJson(JDict(<< KV("knowledge_base", JList(<<
        JDict(<< KV("topic_id", JStr("T2")),
                 KV("topic_name", JStr("Batuk")),
                 KV("sources", JStr("Kemenkes")),
                 KV("data", JDict(<< KV("saran", JList(<< JStr("minum"), JNum(2) >>)) >>))
              >>) >>)) >>))

\* Parsable files that do not have the expected shape.
KbNullTopics == FileJson(JDict(<< KV("knowledge_base", JNull) >>))
KbStrTopic == FileJson(JDict(<< KV("knowledge_base", JList(<< JStr("Demam") >>)) >>))
KbNotDict == FileJson(JList(<< JNum(1) >>))
KbNoKey == FileJson(JDict(<< KV("topics", JList(<<>>)) >>))

KbFiles == { FileMissing, FileUnparsable, KbDemam, KbBatuk,
             KbNullTopics, KbStrTopic, KbNotDict, KbNoKey }

\* spec.md scenario 2: an empty chunk is dropped, a list of sources is joined.
MbMinum ==
    FileJson(JList(<<
        JDict(<< KV("chunk_text", JStr("")), KV("metadata", JDict(<<>>)) >>),
        JDict(<< KV("chunk_text", JStr("Minum air putih cukup")),
                 KV("metadata", JDict(<< KV("sources",
                      JList(<< JStr("WHO"), JStr("Kemenkes") >>)) >>)) >>) >>))

MbNumItem == FileJson(JList(<< JNum(1) >>))
MbNullMeta ==
    FileJson(JList(<< JDict(<< KV("chunk_text", JStr("Tidur cukup")),
                               KV("metadata", JNull) >>) >>))
MbNotList == FileJson(JDict(<< KV("chunk_text", JStr("Tidur cukup")) >>))

MbFiles == { FileMissing, FileUnparsable, MbMinum, MbNumItem, MbNullMeta, MbNotList }

\* A flat source of n well-formed records, for runs longer than one batch.
MbBig(n) ==
    FileJson(JList([r \in 1..n |->
        JDict(<< KV("chunk_text", JStr("chunk " \o ToString(r))),
                 KV("metadata", JDict(<< KV("sources", JStr("WHO")) >>)) >>)]))

(***************************************************************************)
(* The Embedding Gateway and the Vector Index (Chroma collection).         *)
(***************************************************************************)
\* ollama_response.json()["embedding"]: a deterministic vector of the prompt.
EmbeddingOf(prompt) == << Len(prompt) >>

batch_size == 64

\* ids = [f"doc-{i}" for i in range(len(docs))]
DocId(i) == "doc-" \o ToString(i)
MakeIds(docs) == [i \in 1..Len(docs) |-> DocId(i - 1)]

Entry(id, document, metadata, embedding, gen) ==
    [id |-> id, document |-> document, metadata |-> metadata,
     embedding |-> embedding, gen |-> gen]

IdsOf(c) == { e.id : e \in c }

\* collection.add: inserts the triples whose id is not in the collection yet;
\* an id that is already there keeps its stored entry.
CollectionAdd(c, ids, documents, metadatas, embeddings, gen) ==
    c \cup { Entry(ids[i], documents[i], metadatas[i], embeddings[i], gen) :
               i \in { k \in 1..Len(ids) : ids[k] \notin IdsOf(c) } }

\* The (passage text, metadata) contents of a set of entries.
Contents(c) == { Passage(e.document, e.metadata) : e \in c }

(***************************************************************************)
(* State.                                                                  *)
(***************************************************************************)
VARIABLES
    kbFile,      \* kb.json on disk
    mbFile,      \* mb.json on disk
    collExists,  \* the collection "health_kb" exists in the persisted store
    coll,        \* its entries
    bld,         \* bld[b]: one build_index execution (its locals and position)
    appUp,       \* app.py has been imported (module initialisation done)
    req,         \* the request being served (its locals and position)
    nBuilds,     \* build_index runs started so far
    nEdits,      \* edits of the knowledge files so far
    nRequests,   \* requests received so far
    lastBuild,   \* history: the last build_index run that has exited
    launch       \* one run of a startup script (its locals, position, children)

vars == << kbFile, mbFile, collExists, coll, bld, appUp, req, nBuilds, nEdits, nRequests,
           lastBuild, launch >>

\* Everything but the startup script's run.
indexVars == << kbFile, mbFile, collExists, coll, bld, appUp, req, nBuilds, nEdits,
                nRequests, lastBuild >>

fileVars == << kbFile, mbFile, nEdits >>
serveVars == << appUp, req, nRequests >>
histVars == << lastBuild >>

\* A build_index execution that has not started.  The locals of the code are
\* docs, metas, embeddings, i and j.  The other fields are history, not read
\* by the code: gen numbers the run, pre is the collection at its start,
\* kbRead / mbRead are the files as it read them, prompts the texts it sent to
\* the embedding gateway, added the arguments of its collection.add call, and
\* error the step that ended it.
NotRead == [st |-> "not_read"]
NoCall == [called |-> FALSE]
IdleBuild ==
    [pc |-> "idle", docs |-> <<>>, metas |-> <<>>, embeddings |-> <<>>,
     i |-> 0, j |-> 0, gen |-> 0, pre |-> {}, kbRead |-> NotRead, mbRead |-> NotRead,
     prompts |-> <<>>, added |-> NoCall, error |-> ""]

\* No build has exited yet, or the last one ended in an error.
NoBuild == [completed |-> FALSE]

\* Positions of a build between its first write to the index and its last.
Running(b) == bld[b].pc \in {"delete", "load_kb", "load_mb", "embed", "stalled", "add"}

(***************************************************************************)
(* The operator edits a knowledge file.                                    *)
(***************************************************************************)
EditKb ==
    /\ nEdits < MaxEdits
    /\ \E f \in KbFiles \ {kbFile} : kbFile' = f
    /\ nEdits' = nEdits + 1
    /\ UNCHANGED << mbFile, collExists, coll, bld, serveVars, nBuilds, histVars, launch >>

EditMb ==
    /\ nEdits < MaxEdits
    /\ \E f \in MbFiles \ {mbFile} : mbFile' = f
    /\ nEdits' = nEdits + 1
    /\ UNCHANGED << kbFile, collExists, coll, bld, serveVars, nBuilds, histVars, launch >>

(***************************************************************************)
(* build_index (rag_build.py lines 162-211), one action per external       *)
(* effect: index call, file read, embedding request.                       *)
(***************************************************************************)
\* Lines 164-165: open the store, get_or_create_collection("health_kb").
BuildStart(b) ==
    /\ bld[b].pc = "idle"
    /\ nBuilds < MaxBuilds
    /\ nBuilds' = nBuilds + 1
    /\ collExists' = TRUE
    /\ bld' = [bld EXCEPT ![b] = [IdleBuild EXCEPT !.pc = "delete",
                                                   !.gen = nBuilds + 1,
                                                   !.pre = coll]]
    /\ UNCHANGED << coll, fileVars, serveVars, histVars, launch >>

\* Lines 169-170: collection.delete(where={}) returns: the collection is empty.
BuildDelete(b) ==
    /\ bld[b].pc = "delete"
    /\ coll' = {}
    /\ bld' = [bld EXCEPT ![b].pc = "load_kb"]
    /\ UNCHANGED << collExists, fileVars, serveVars, nBuilds, histVars, launch >>

\* Lines 171-173: collection.delete raises and the exception is swallowed.
BuildDeleteRaises(b) ==
    /\ bld[b].pc = "delete"
    /\ bld' = [bld EXCEPT ![b].pc = "load_kb"]
    /\ UNCHANGED << collExists, coll, fileVars, serveVars, nBuilds, histVars, launch >>

\* Lines 178-181: load_kb and the loop over flatten_kb; an exception raised
\* while consuming the generator ends the run.
BuildLoadKb(b) ==
    /\ bld[b].pc = "load_kb"
    /\ LET r == flatten_kb(load_kb(kbFile))
       IN  bld' = IF r.raised
                  THEN [bld EXCEPT ![b].pc = "failed", ![b].error = "flatten_kb",
                                   ![b].kbRead = kbFile]
                  ELSE [bld EXCEPT ![b].pc = "load_mb",
                                   ![b].kbRead = kbFile,
                                   ![b].docs = [k \in 1..Len(r.out) |-> r.out[k].text],
                                   ![b].metas = [k \in 1..Len(r.out) |-> r.out[k].meta]]
    /\ UNCHANGED << collExists, coll, fileVars, serveVars, nBuilds, histVars, launch >>

\* Lines 183-189: load_mb and the loop over flatten_mb, then the empty check.
BuildLoadMb(b) ==
    /\ bld[b].pc = "load_mb"
    /\ LET r == flatten_mb(load_mb(mbFile))
           docs == bld[b].docs \o [k \in 1..Len(r.out) |-> r.out[k].text]
           metas == bld[b].metas \o [k \in 1..Len(r.out) |-> r.out[k].meta]
       IN  bld' = IF r.raised
                  THEN [bld EXCEPT ![b].pc = "failed", ![b].error = "flatten_mb",
                                   ![b].mbRead = mbFile]
                  ELSE [bld EXCEPT ![b].pc = IF Len(docs) = 0 THEN "nothing" ELSE "embed",
                                   ![b].mbRead = mbFile,
                                   ![b].docs = docs,
                                   ![b].metas = metas]
    /\ UNCHANGED << collExists, coll, fileVars, serveVars, nBuilds, histVars, launch >>

\* Lines 193-194 and 197: the passage the two nested loops are at, i being the
\* start of the batch and j the position inside batch_docs.
Min(a, c) == IF a < c THEN a ELSE c
\* Faulty variant: the slice docs[i : i + batch_size - 1] drops the last
\* passage of every full batch.
batch_docs_short(docs, i) == SubSeq(docs, i + 1, Min(i + batch_size - 1, Len(docs)))

batch_docs(docs, i) == SubSeq(docs, i + 1, Min(i + batch_size, Len(docs)))
CurrentDoc(b) == batch_docs(bld[b].docs, bld[b].i)[bld[b].j + 1]

\* The loop counters after one inner iteration.
AfterDoc(r) ==
    IF r.j + 1 < Len(batch_docs(r.docs, r.i))
    THEN [r EXCEPT !.j = r.j + 1]
    ELSE IF r.i + batch_size < Len(r.docs)
    THEN [r EXCEPT !.i = r.i + batch_size, !.j = 0]
    ELSE [r EXCEPT !.pc = "add"]

\* Lines 198-204: the embedding request answers 200; its vector is appended.
BuildEmbed(b) ==
    /\ bld[b].pc = "embed"
    /\ bld' = [bld EXCEPT ![b] =
                 AfterDoc([bld[b] EXCEPT
                              !.prompts = Append(bld[b].prompts, CurrentDoc(b)),
                              !.embeddings =
                                  Append(bld[b].embeddings, EmbeddingOf(CurrentDoc(b)))])]
    /\ UNCHANGED << collExists, coll, fileVars, serveVars, nBuilds, histVars, launch >>

\* Faulty variant: the failure is logged and the loop left, and the run goes on
\* to index the passages embedded so far.
BuildEmbedFails_partial(b) ==
    /\ bld[b].pc = "embed"
    /\ bld' = [bld EXCEPT ![b].pc = "add", ![b].error = "embedding",
                          ![b].prompts = Append(bld[b].prompts, CurrentDoc(b)),
                          ![b].docs = SubSeq(bld[b].docs, 1, Len(bld[b].embeddings)),
                          ![b].metas = SubSeq(bld[b].metas, 1, Len(bld[b].embeddings))]
    /\ UNCHANGED << collExists, coll, fileVars, serveVars, nBuilds, histVars, launch >>

\* Lines 202-206: a status other than 200, or requests.post raising (the
\* gateway is unreachable): RuntimeError, the run ends.
BuildEmbedFails(b) ==
    /\ bld[b].pc = "embed"
    /\ bld' = [bld EXCEPT ![b].pc = "failed", ![b].error = "embedding",
                          ![b].prompts = Append(bld[b].prompts, CurrentDoc(b))]
    /\ UNCHANGED << collExists, coll, fileVars, serveVars, nBuilds, histVars, launch >>

\* Lines 198-201: requests.post is given no timeout; when the gateway accepts
\* the connection and never answers, the call does not return.
BuildEmbedStalls(b) ==
    /\ bld[b].pc = "embed"
    /\ bld' = [bld EXCEPT ![b].pc = "stalled",
                          ![b].prompts = Append(bld[b].prompts, CurrentDoc(b))]
    /\ UNCHANGED << collExists, coll, fileVars, serveVars, nBuilds, histVars, launch >>

\* Lines 208-211: the ids, then collection.add of everything at once.
BuildAdd(b) ==
    /\ bld[b].pc = "add"
    /\ coll' = CollectionAdd(coll, MakeIds(bld[b].docs), bld[b].docs, bld[b].metas,
                             bld[b].embeddings, bld[b].gen)
    /\ bld' = [bld EXCEPT ![b].pc = "done",
                          ![b].added = [called |-> TRUE,
                                        ids |-> MakeIds(bld[b].docs),
                                        documents |-> bld[b].docs,
                                        metadatas |-> bld[b].metas,
                                        embeddings |-> bld[b].embeddings]]
    /\ UNCHANGED << collExists, fileVars, serveVars, nBuilds, histVars, launch >>

\* The process exits (after "Indexed ...", "nothing to index", or a traceback).
BuildExit(b) ==
    /\ bld[b].pc \in {"done", "nothing", "failed"}
    /\ bld' = [bld EXCEPT ![b] = IdleBuild]
    /\ lastBuild' = IF bld[b].pc = "failed"
                    THEN NoBuild
                    ELSE [completed |-> TRUE, kbRead |-> bld[b].kbRead,
                          mbRead |-> bld[b].mbRead, contents |-> Contents(coll),
                          count |-> Cardinality(coll)]
    /\ UNCHANGED << collExists, coll, fileVars, serveVars, nBuilds, launch >>

Build(b) ==
    \/ BuildStart(b)
    \/ BuildDelete(b)
    \/ BuildDeleteRaises(b)
    \/ BuildLoadKb(b)
    \/ BuildLoadMb(b)
    \/ BuildEmbed(b)
    \/ BuildEmbedFails(b)
    \/ BuildEmbedStalls(b)
    \/ BuildAdd(b)
    \/ BuildExit(b)

(***************************************************************************)
(* Python string helpers used by the serving path.                         *)
(***************************************************************************)
IsSpace(c) == c \in {" ", "\t", "\n", "\r"}

\* str.strip()
RECURSIVE LStrip(_)
LStrip(s) ==
    IF Len(s) > 0 /\ IsSpace(SubSeq(s, 1, 1)) THEN LStrip(SubSeq(s, 2, Len(s))) ELSE s

RECURSIVE RStrip(_)
RStrip(s) ==
    IF Len(s) > 0 /\ IsSpace(SubSeq(s, Len(s), Len(s)))
    THEN RStrip(SubSeq(s, 1, Len(s) - 1)) ELSE s

Strip(s) == RStrip(LStrip(s))

\* str.split(sep) for a one-character separator.
RECURSIVE Split(_, _)
Split(s, sep) ==
    IF \E p \in 1..Len(s) : SubSeq(s, p, p) = sep
    THEN LET p == CHOOSE q \in 1..Len(s) :
                     /\ SubSeq(s, q, q) = sep
                     /\ \A r \in 1..(q - 1) : SubSeq(s, r, r) # sep
         IN  << SubSeq(s, 1, p - 1) >> \o Split(SubSeq(s, p + 1, Len(s)), sep)
    ELSE << s >>

\* The characters of the model's strings in code point order: ASCII 32..95
\* and 97..126 (code 96, the grave accent, does not occur in the model).
CodeLow == " !\"#$%&'()*+,-./0123456789:;<=>?@ABCDEFGHIJKLMNOPQRSTUVWXYZ[\\]^_"
CodeHigh == "abcdefghijklmnopqrstuvwxyz{|}~"

CharCode(c) ==
    IF \E p \in 1..Len(CodeLow) : SubSeq(CodeLow, p, p) = c
    THEN 31 + (CHOOSE p \in 1..Len(CodeLow) : SubSeq(CodeLow, p, p) = c)
    ELSE IF \E p \in 1..Len(CodeHigh) : SubSeq(CodeHigh, p, p) = c
    THEN 96 + (CHOOSE p \in 1..Len(CodeHigh) : SubSeq(CodeHigh, p, p) = c)
    ELSE IF c = "\t" THEN 9 ELSE IF c = "\n" THEN 10 ELSE IF c = "\r" THEN 13 ELSE 127

\* a < b for Python strings: lexicographic by code point.
RECURSIVE StrLess(_, _)
StrLess(a, b) ==
    IF Len(b) = 0 THEN FALSE
    ELSE IF Len(a) = 0 THEN TRUE
    ELSE LET ca == CharCode(SubSeq(a, 1, 1))
             cb == CharCode(SubSeq(b, 1, 1))
         IN  IF ca # cb THEN ca < cb
             ELSE StrLess(SubSeq(a, 2, Len(a)), SubSeq(b, 2, Len(b)))

\* sorted(source_set)
RECURSIVE Sorted(_)
Sorted(S) ==
    IF S = {} THEN <<>>
    ELSE LET m == CHOOSE x \in S : \A y \in S : x = y \/ StrLess(x, y)
         IN  << m >> \o Sorted(S \ {m})

(***************************************************************************)
(* Vector Index query: kb_collection.query(query_embeddings, n_results).   *)
(***************************************************************************)
Distance(u, v) == (u[1] - v[1]) * (u[1] - v[1])

\* e ranks before f for the query vector q: nearer first, then by id.
Nearer(q, e, f) ==
    \/ Distance(q, e.embedding) < Distance(q, f.embedding)
    \/ Distance(q, e.embedding) = Distance(q, f.embedding) /\ StrLess(e.id, f.id)

RECURSIVE Ranked(_, _)
Ranked(c, q) ==
    IF c = {} THEN <<>>
    ELSE LET m == CHOOSE e \in c : \A f \in c : e = f \/ Nearer(q, e, f)
         IN  << m >> \o Ranked(c \ {m}, q)

\* The documents and metadatas of the n_results nearest entries; fewer when
\* the collection holds fewer, none when it is empty.
CollectionQuery(c, q, n_results) ==
    LET top == SubSeq(Ranked(c, q), 1, Min(n_results, Cardinality(c)))
    IN  [documents |-> [k \in 1..Len(top) |-> top[k].document],
         metadatas |-> [k \in 1..Len(top) |-> top[k].metadata]]

(***************************************************************************)
(* build_rag_prompt (app.py lines 197-240).                                *)
(***************************************************************************)
\* (the source writes the two ranges "2-4" and "2-3" with an en dash)
BAYMAX_SYSTEM_PROMPT ==
    "Anda adalah Baymax, asisten kesehatan pribadi yang tenang dan empatik. "
    \o "Anda tidak mendiagnosis penyakit, tidak meresepkan obat, dan tidak memberikan rekomendasi medis yang bersifat spesifik. "
    \o "Tugas Anda adalah memberikan informasi umum, tips gaya hidup, dan pertolongan awal yang aman berdasarkan pertanyaan pengguna atau konteks yang diberikan. "
    \o "Jika pertanyaan berkaitan dengan gejala berat, Anda harus menyarankan untuk berkonsultasi langsung dengan tenaga medis atau layanan darurat. "
    \o "Tulislah jawaban dalam Bahasa Indonesia dengan 2-4 kalimat, kemudian berikan 2-3 bullet point saran jika relevan. "
    \o "Akhiri jawaban dengan pertanyaan singkat atau harapan baik."

\* Faulty variant: the parts of a sources string are added as split, without
\* trimming.
MetaSources_untrimmed(meta) ==
    LET sources == Get(meta, "sources", JNull)
    IN  IF ~Truthy(sources) THEN {}
        ELSE IF IsList(sources) THEN { sources.l[k].s : k \in 1..Len(sources.l) }
        ELSE IF IsStr(sources)
        THEN LET parts == Split(sources.s, ",")
             IN  { parts[k] : k \in 1..Len(parts) }
        ELSE {}

\* The sources one metadata contributes to source_set (lines 215-223).
MetaSources(meta) ==
    LET sources == Get(meta, "sources", JNull)
    IN  IF ~Truthy(sources) THEN {}
        ELSE IF IsList(sources) THEN { sources.l[k].s : k \in 1..Len(sources.l) }
        ELSE IF IsStr(sources)
        THEN LET parts == Split(sources.s, ",")
             IN  { Strip(parts[k]) : k \in 1..Len(parts) }
        ELSE {}

\* Faulty variant: an empty context is replaced by a placeholder passage.
build_rag_prompt_placeholder(user_question, context_docs, context_metas) ==
    LET docs == IF Len(context_docs) = 0 THEN << "(tidak ada konteks)" >> ELSE context_docs
        source_set == UNION { MetaSources(context_metas[k]) : k \in 1..Len(context_metas) }
    IN  [prompt |-> BAYMAX_SYSTEM_PROMPT \o "\n\n[KONTEKS]\n" \o JoinStr("\n\n---\n", docs)
                    \o "\n\n[PERTANYAAN PENGGUNA]\n" \o user_question \o "\n\n[PETUNJUK]\n",
         sources |-> Sorted(source_set)]

build_rag_prompt(user_question, context_docs, context_metas) ==
    LET context_section == JoinStr("\n\n---\n", context_docs)
        source_set == UNION { MetaSources(context_metas[k]) : k \in 1..Len(context_metas) }
        prompt ==
            BAYMAX_SYSTEM_PROMPT \o "\n\n"
            \o "[KONTEKS]\n"
            \o context_section \o "\n\n"
            \o "[PERTANYAAN PENGGUNA]\n"
            \o user_question \o "\n\n"
            \o "[PETUNJUK]\n"
            \o "Gunakan informasi dari [KONTEKS] untuk menjawab pertanyaan. Jika konteks tidak relevan, berikan jawaban umum sesuai kebijaksanaan Anda. "
            \o "Selalu cantumkan bagian 'Sumber:' di akhir jawaban yang berisi nama lembaga, dipisahkan oleh koma, dari sumber yang digunakan. "
            \o "Jika Anda tidak dapat menemukan jawaban yang relevan atau yakin, katakan bahwa Anda tidak tahu dan sarankan untuk berkonsultasi dengan tenaga medis."
    IN  [prompt |-> prompt, sources |-> Sorted(source_set)]

(***************************************************************************)
(* The serving path (app.py).                                              *)
(***************************************************************************)
\* Request bodies a client may send, and what the generation model may say.
Messages == { "  ", "demam?", " batuk " }
Answers == { "Istirahat yang cukup." }

\* No request in flight.  The last four fields are history: queried and
\* generated record that the request has called kb_collection.query and the
\* text-generation client, during holds the numbers of the builds that were
\* running when it queried the index, error names the step that failed.
IdleRequest ==
    [pc |-> "idle", endpoint |-> "", question |-> "", query_emb |-> <<>>,
     docs |-> <<>>, metas |-> <<>>, prompt |-> "", sources |-> <<>>,
     status |-> 0, body |-> <<>>, queried |-> FALSE, generated |-> FALSE,
     during |-> {}, error |-> ""]

\* Faulty variant: module initialisation recreates the collection empty.
AppInit_recreates ==
    /\ ~appUp
    /\ appUp' = TRUE
    /\ collExists' = TRUE
    /\ coll' = {}
    /\ UNCHANGED << bld, req, fileVars, nBuilds, nRequests, histVars, launch >>

\* Lines 122-125: importing app.py opens the store and gets or creates
\* the collection.
AppInit ==
    /\ ~appUp
    /\ appUp' = TRUE
    /\ collExists' = TRUE
    /\ UNCHANGED << coll, bld, req, fileVars, nBuilds, nRequests, histVars, launch >>

\* rag_endpoint, lines 299-301: strip the message, reject an empty one.
RagReceive ==
    /\ appUp
    /\ req.pc = "idle"
    /\ nRequests < MaxRequests
    /\ nRequests' = nRequests + 1
    /\ \E m \in Messages :
         LET question == Strip(m)
         IN  req' = IF question = ""
                    THEN [IdleRequest EXCEPT !.pc = "failed", !.endpoint = "rag",
                                             !.status = 400, !.error = "empty"]
                    ELSE [IdleRequest EXCEPT !.pc = "embed", !.endpoint = "rag",
                                             !.question = question]
    /\ UNCHANGED << collExists, coll, bld, appUp, fileVars, nBuilds, histVars, launch >>

\* retrieve_context, lines 177-183: the embedding request answers 200.
RetrieveEmbed ==
    /\ req.pc = "embed"
    /\ req' = [req EXCEPT !.pc = "query", !.query_emb = EmbeddingOf(req.question)]
    /\ UNCHANGED << collExists, coll, bld, appUp, fileVars, nBuilds, nRequests, histVars, launch >>

\* Faulty variant: the failure is swallowed and the request falls back to
\* the directive alone, without context.
RetrieveEmbedFails_fallback ==
    /\ req.pc = "embed"
    /\ req' = [req EXCEPT !.pc = "generate", !.error = "embedding",
                          !.prompt = BAYMAX_SYSTEM_PROMPT]
    /\ UNCHANGED << collExists, coll, bld, appUp, fileVars, nBuilds, nRequests, histVars, launch >>

\* Lines 177-182: a status other than 200 raises HTTPException(500); an
\* unreachable gateway makes requests.post raise, which the framework
\* answers with a 500 as well.
RetrieveEmbedFails ==
    /\ req.pc = "embed"
    /\ req' = [req EXCEPT !.pc = "failed", !.status = 500, !.error = "embedding"]
    /\ UNCHANGED << collExists, coll, bld, appUp, fileVars, nBuilds, nRequests, histVars, launch >>

\* Lines 177-180: requests.post is given no timeout; when the gateway never
\* answers, the call does not return.
RetrieveEmbedStalls ==
    /\ req.pc = "embed"
    /\ req' = [req EXCEPT !.pc = "embed_stalled"]
    /\ UNCHANGED << collExists, coll, bld, appUp, fileVars, nBuilds, nRequests, histVars, launch >>

\* Lines 187-194 and 305-308: query the collection, assemble the prompt.
RetrieveQuery ==
    /\ req.pc = "query"
    /\ LET results == CollectionQuery(coll, req.query_emb, 4)
           docs == results.documents
           metas == results.metadatas
           assembled == build_rag_prompt(req.question, docs, metas)
       IN  req' = [req EXCEPT !.pc = "generate", !.docs = docs, !.metas = metas,
                              !.prompt = assembled.prompt,
                              !.sources = assembled.sources,
                              !.queried = TRUE,
                              !.during = { bld[b].gen : b \in { c \in Builders : Running(c) } }]
    /\ UNCHANGED << collExists, coll, bld, appUp, fileVars, nBuilds, nRequests, histVars, launch >>

\* chat_endpoint, lines 272-278: strip the message, reject an empty one.
ChatReceive ==
    /\ appUp
    /\ req.pc = "idle"
    /\ nRequests < MaxRequests
    /\ nRequests' = nRequests + 1
    /\ \E m \in Messages :
         LET question == Strip(m)
         IN  req' = IF question = ""
                    THEN [IdleRequest EXCEPT !.pc = "failed", !.endpoint = "chat",
                                             !.status = 400, !.error = "empty"]
                    ELSE [IdleRequest EXCEPT !.pc = "generate", !.endpoint = "chat",
                                             !.question = question,
                                             !.prompt = BAYMAX_SYSTEM_PROMPT]
    /\ UNCHANGED << collExists, coll, bld, appUp, fileVars, nBuilds, histVars, launch >>

\* Lines 280-288 and 310-318: the completion returns; the JSON response.
Generate ==
    /\ req.pc = "generate"
    /\ \E answer \in Answers :
         req' = [req EXCEPT !.pc = "ok", !.status = 200, !.generated = TRUE,
                            !.body = IF req.endpoint = "rag"
                                     THEN [text |-> answer, sources |-> req.sources]
                                     ELSE [text |-> answer]]
    /\ UNCHANGED << collExists, coll, bld, appUp, fileVars, nBuilds, nRequests, histVars, launch >>

\* Lines 285-286 and 315-316: the client raises, HTTPException(500).
GenerateFails ==
    /\ req.pc = "generate"
    /\ req' = [req EXCEPT !.pc = "failed", !.status = 500, !.generated = TRUE,
                          !.error = "generation"]
    /\ UNCHANGED << collExists, coll, bld, appUp, fileVars, nBuilds, nRequests, histVars, launch >>

\* The generation service accepts the call and does not answer.
GenerateStalls ==
    /\ req.pc = "generate"
    /\ req' = [req EXCEPT !.pc = "generate_stalled", !.generated = TRUE]
    /\ UNCHANGED << collExists, coll, bld, appUp, fileVars, nBuilds, nRequests, histVars, launch >>

\* Lines 115-120: groq_client has timeout=CLIENT_TIMEOUT; the stalled call
\* raises a timeout error, which lines 285-286 / 315-316 turn into a 500.
GenerateTimeout ==
    /\ req.pc = "generate_stalled"
    /\ req' = [req EXCEPT !.pc = "failed", !.status = 500, !.error = "generation_timeout"]
    /\ UNCHANGED << collExists, coll, bld, appUp, fileVars, nBuilds, nRequests, histVars, launch >>

\* The response has been sent; the worker takes the next request.
Respond ==
    /\ req.pc \in {"ok", "failed"}
    /\ req' = IdleRequest
    /\ UNCHANGED << collExists, coll, bld, appUp, fileVars, nBuilds, nRequests, histVars, launch >>

Serve ==
    \/ AppInit
    \/ RagReceive
    \/ RetrieveEmbed
    \/ RetrieveEmbedFails
    \/ RetrieveEmbedStalls
    \/ RetrieveQuery
    \/ ChatReceive
    \/ Generate
    \/ GenerateFails
    \/ GenerateStalls
    \/ GenerateTimeout
    \/ Respond

(***************************************************************************)
(* The startup scripts (start_production.py, start_development.py): main() *)
(* starts the TTS server and the API server as child processes, watches    *)
(* them, and stops them in its finally block.  The two scripts differ in   *)
(* the uvicorn options only.                                               *)
(***************************************************************************)
Scripts == { "start_production.py", "start_development.py" }
Children == { "tts_server", "app" }

\* Ctrl+C arrives at most this often during one run.
MaxInterrupts == 2

\* A child is "none" (never started), "running", "exited" (it died on its
\* own), "terminating" (it was sent SIGTERM and has not exited yet),
\* "terminated" or "killed".  The fields after child are history: which
\* children terminate() and kill() were called on, why the try block was
\* left, and how often Ctrl+C arrived.
IdleLaunch ==
    [pc |-> "idle", script |-> "", env |-> FALSE, processes |-> <<>>, idx |-> 0,
     child |-> [c \in Children |-> "none"], pending |-> "", result |-> -1,
     terminateCalled |-> {}, killCalled |-> {}, cause |-> "", interrupts |-> 0]

\* python start_*.py, with or without a .env file in the script directory.
LaunchMain ==
    /\ launch.pc = "idle"
    /\ \E script \in Scripts, env \in BOOLEAN :
         launch' = [launch EXCEPT !.pc = "check_env", !.script = script, !.env = env]
    /\ UNCHANGED indexVars

\* Lines 45-49: without .env, main returns 1 before anything is started.
LaunchCheckEnv ==
    /\ launch.pc = "check_env"
    /\ launch' = IF launch.env
                 THEN [launch EXCEPT !.pc = "start_tts"]
                 ELSE [launch EXCEPT !.pc = "returned", !.result = 1, !.cause = "no_env"]
    /\ UNCHANGED indexVars

\* Leaving the try block for the finally block (line 80).
ToCleanup(pending, cause) ==
    [launch EXCEPT !.pc = "cleanup", !.idx = 1, !.pending = pending, !.cause = cause]

\* Lines 55-57 and 60-61: subprocess.Popen starts the child, which is
\* appended to processes.
LaunchStart(c, pc, next) ==
    /\ launch.pc = pc
    /\ launch' = [launch EXCEPT !.pc = next, !.child[c] = "running",
                                !.processes = Append(launch.processes, c)]
    /\ UNCHANGED indexVars

\* subprocess.Popen raises (the interpreter cannot be executed): no except
\* clause matches, the finally block runs and the exception goes on.
LaunchStartRaises(pc) ==
    /\ launch.pc = pc
    /\ launch' = ToCleanup("raise", "start_failed")
    /\ UNCHANGED indexVars

\* Line 57: time.sleep(2) is over.
LaunchSleep ==
    /\ launch.pc = "sleep"
    /\ launch' = [launch EXCEPT !.pc = "start_api"]
    /\ UNCHANGED indexVars

\* A running child dies on its own.
ChildDies(c) ==
    /\ launch.child[c] = "running"
    /\ launch' = [launch EXCEPT !.child[c] = "exited"]
    /\ UNCHANGED indexVars

\* Lines 69-75: an iteration of the watch loop finds that process.poll() is
\* not None for some process: return 1, through the finally block.  (An
\* iteration that finds every child alive changes nothing.)
LaunchWatch ==
    /\ launch.pc = "watch"
    /\ \E k \in 1..Len(launch.processes) : launch.child[launch.processes[k]] = "exited"
    /\ launch' = ToCleanup("return1", "child_died")
    /\ UNCHANGED indexVars

\* Ctrl+C: KeyboardInterrupt is raised in main wherever it is.  Inside the
\* try block it is caught (lines 77-78) and main goes to the finally block;
\* before the try block, and inside the finally block itself (also while
\* process.wait blocks), nothing catches it and it leaves main.
LaunchInterrupt ==
    /\ launch.interrupts < MaxInterrupts
    /\ launch.pc \in {"check_env", "start_tts", "sleep", "start_api", "watch", "cleanup", "wait"}
    /\ launch' = IF launch.pc \in {"start_tts", "sleep", "start_api", "watch"}
                 THEN [ToCleanup("return0", "interrupt") EXCEPT
                           !.interrupts = launch.interrupts + 1]
                 ELSE [launch EXCEPT !.pc = "raised", !.cause = "interrupt",
                                     !.interrupts = launch.interrupts + 1]
    /\ UNCHANGED indexVars

\* Line 84: process.terminate() on the process the cleanup loop is at; a
\* process that has exited already is left alone.
LaunchTerminate ==
    /\ launch.pc = "cleanup"
    /\ launch.idx <= Len(launch.processes)
    /\ LET c == launch.processes[launch.idx]
       IN  launch' = [launch EXCEPT
                          !.pc = "wait",
                          !.terminateCalled = launch.terminateCalled \cup {c},
                          !.child[c] = IF launch.child[c] = "running"
                                       THEN "terminating" ELSE launch.child[c]]
    /\ UNCHANGED indexVars

\* Line 85: process.wait(timeout=5) returns, the process has exited.
LaunchWaitExited ==
    /\ launch.pc = "wait"
    /\ LET c == launch.processes[launch.idx]
       IN  launch' = [launch EXCEPT
                          !.pc = "cleanup", !.idx = launch.idx + 1,
                          !.child[c] = IF launch.child[c] = "terminating"
                                       THEN "terminated" ELSE launch.child[c]]
    /\ UNCHANGED indexVars

\* Lines 85-87: the process has not exited within the timeout; wait raises
\* TimeoutExpired and process.kill() is called.
LaunchWaitTimeout ==
    /\ launch.pc = "wait"
    /\ launch.child[launch.processes[launch.idx]] = "terminating"
    /\ LET c == launch.processes[launch.idx]
       IN  launch' = [launch EXCEPT
                          !.pc = "cleanup", !.idx = launch.idx + 1,
                          !.killCalled = launch.killCalled \cup {c},
                          !.child[c] = "killed"]
    /\ UNCHANGED indexVars

\* Lines 89-91: the cleanup loop is over; main returns what the try block
\* was returning (1), returns 0 at line 91, or lets the exception go on.
LaunchLeave ==
    /\ launch.pc = "cleanup"
    /\ launch.idx > Len(launch.processes)
    /\ launch' = CASE launch.pending = "return1" ->
                          [launch EXCEPT !.pc = "returned", !.result = 1]
                   [] launch.pending = "return0" ->
                          [launch EXCEPT !.pc = "returned", !.result = 0]
                   [] OTHER -> [launch EXCEPT !.pc = "raised"]
    /\ UNCHANGED indexVars

Launch ==
    \/ LaunchMain
    \/ LaunchCheckEnv
    \/ LaunchStart("tts_server", "start_tts", "sleep")
    \/ LaunchStartRaises("start_tts")
    \/ LaunchSleep
    \/ LaunchStart("app", "start_api", "watch")
    \/ LaunchStartRaises("start_api")
    \/ \E c \in Children : ChildDies(c)
    \/ LaunchWatch
    \/ LaunchInterrupt
    \/ LaunchTerminate
    \/ LaunchWaitExited
    \/ LaunchWaitTimeout
    \/ LaunchLeave

(***************************************************************************)
(* Specifications.  Each composes the processes a group of properties is   *)
(* about; the collection, the files and the counters are shared by all.    *)
(***************************************************************************)
InitCommon ==
    /\ collExists = FALSE
    /\ coll = {}
    /\ bld = [b \in Builders |-> IdleBuild]
    /\ appUp = FALSE
    /\ req = IdleRequest
    /\ nBuilds = 0
    /\ nEdits = 0
    /\ nRequests = 0
    /\ lastBuild = NoBuild
    /\ launch = IdleLaunch

\* The server and one operator running builds, over well-formed sources.
Init ==
    /\ kbFile \in { KbDemam, KbBatuk }
    /\ mbFile \in { MbMinum, FileMissing }
    /\ InitCommon

Next ==
    \/ Build(1)
    \/ Serve

Spec == Init /\ [][Next]_vars

\* The operator alone: any knowledge files, edits between and during builds.
OperatorInit ==
    /\ kbFile \in KbFiles
    /\ mbFile \in MbFiles
    /\ InitCommon

OperatorNext ==
    \/ EditKb
    \/ EditMb
    \/ Build(1)

OperatorSpec == OperatorInit /\ [][OperatorNext]_vars

\* Two invocations of rag_build.py that may overlap.
OverlapInit ==
    /\ kbFile \in { KbDemam, KbBatuk }
    /\ mbFile \in { MbMinum, FileMissing }
    /\ InitCommon

OverlapNext == \E b \in Builders : Build(b)

OverlapSpec == OverlapInit /\ [][OverlapNext]_vars

\* One operator building from flat sources of up to MaxBigDocs records: short
\* ones, and the sizes around a full batch.
BigSizes == {1, 2} \cup ((batch_size - 1)..MaxBigDocs)

BatchInit ==
    /\ kbFile = FileMissing
    /\ mbFile \in { MbBig(n) : n \in BigSizes }
    /\ InitCommon

BatchNext == Build(1)

BatchSpec == BatchInit /\ [][BatchNext]_vars

\* The server and one operator, where a remote call that has been issued
\* comes to one of its outcomes: the service answers, answers with an error,
\* or stops answering; and a client that holds a timeout fires it.
RetrieveEmbedCall == RetrieveEmbed \/ RetrieveEmbedFails \/ RetrieveEmbedStalls

GenerateCall == Generate \/ GenerateFails \/ GenerateStalls \/ GenerateTimeout

BuildEmbedCall == BuildEmbed(1) \/ BuildEmbedFails(1) \/ BuildEmbedStalls(1)

FairSpec ==
    /\ Spec
    /\ WF_vars(RetrieveEmbedCall)
    /\ WF_vars(GenerateCall)
    /\ WF_vars(BuildEmbedCall)

(***************************************************************************)
(* Properties.                                                             *)
(***************************************************************************)
\* What a request saw of the index, as retrieve_context returned it.
Seen == [documents |-> req.docs, metadatas |-> req.metas]

\* The passages a run normalised from the sources it read.
Normalised(b) == { Passage(bld[b].docs[k], bld[b].metas[k]) : k \in 1..Len(bld[b].docs) }

\* C1: a query that runs while a build is in progress observes either the
\* complete contents from before the rebuild or the complete contents after
\* it, never anything else.  Stated when the build has finished (the
\* collection then holds the post-rebuild contents) for a request that queried
\* the index during that build.
C1_QuerySeesOldOrNew ==
    (req.queried /\ bld[1].pc = "done" /\ bld[1].gen \in req.during) =>
        \/ Seen = CollectionQuery(bld[1].pre, req.query_emb, 4)
        \/ Seen = CollectionQuery(coll, req.query_emb, 4)

\* C2: when an embedding request of a build fails, the build has aborted,
\* collection.add has not been called, and the collection holds nothing of
\* this run: it is empty or still the complete contents from before the run.
C2_EmbeddingFailureAborts ==
    \A b \in Builders :
        bld[b].error = "embedding" =>
            /\ bld[b].pc = "failed"
            /\ ~bld[b].added.called
            /\ \A e \in coll : e.gen # bld[b].gen
            /\ coll = {} \/ coll = bld[b].pre

\* C2 witness: the request for a later passage failed, after earlier ones
\* were embedded, in a rebuild of a collection that held entries.
C2_Witness ==
    /\ bld[1].error = "embedding"
    /\ Len(bld[1].embeddings) >= 1
    /\ bld[1].pre # {}

\* C3: after a build that completed, the collection holds exactly the
\* passages normalised from the sources, all of them written by this run; a
\* build that found nothing to index leaves it empty.
C3_RebuildReplacesEverything ==
    /\ bld[1].pc = "done" =>
          /\ Contents(coll) = Normalised(1)
          /\ \A e \in coll : e.gen = bld[1].gen
    /\ bld[1].pc = "nothing" => coll = {}

\* C4: a build that read the same files as the completed build before it
\* leaves the same passages and attributions, and as many entries.
C4_RebuildIdempotent ==
    ( /\ bld[1].pc \in {"done", "nothing"}
      /\ lastBuild.completed
      /\ bld[1].kbRead = lastBuild.kbRead
      /\ bld[1].mbRead = lastBuild.mbRead ) =>
        /\ Contents(coll) = lastBuild.contents
        /\ Cardinality(coll) = lastBuild.count

\* C5: when the embedding request of a grounded query fails, the request has
\* failed: the index was not queried, the generation client was not called,
\* and there is no answer / sources payload.
C5_EmbeddingFailureFailsRequest ==
    req.error = "embedding" =>
        /\ req.endpoint = "rag"
        /\ req.pc = "failed"
        /\ req.status = 500
        /\ ~req.queried
        /\ ~req.generated
        /\ req.body = <<>>

\* C5 witness: the embedding request failed while the index held passages.
C5_Witness == req.error = "embedding" /\ coll # {}

\* C6: no step of the serving path changes the entries of the collection,
\* and a step that changes them is the delete or the add of a build.
C6_ServingNeverMutatesIndex ==
    [][ /\ Serve => coll' = coll
        /\ coll' # coll => \E b \in Builders : BuildDelete(b) \/ BuildAdd(b) ]_vars

\* C6 witness: a grounded query answered from a populated index.
C6_Witness ==
    /\ req.pc = "ok"
    /\ req.endpoint = "rag"
    /\ Len(req.docs) > 0
    /\ coll # {}

\* C7: every remote call eventually returns or fails: at any time, the
\* embedding call of a request, the generation call and the embedding calls
\* of a build each come to an end (a call that is pending is later over).
C7_RemoteCallsEnd ==
    /\ []<>(req.pc \notin {"embed", "embed_stalled"})
    /\ []<>(req.pc \notin {"generate", "generate_stalled"})
    /\ []<>(bld[1].pc \notin {"embed", "stalled"})

\* A build between its clear step and its bulk-add step.
Rebuilding(b) == bld[b].pc \in {"load_kb", "load_mb", "embed", "stalled", "add"}

\* C8: two builds are never both between their clear step and their add
\* step, so when both have finished the collection holds one entry per
\* normalised passage.
C8_NoConcurrentRebuild ==
    /\ ~(Rebuilding(1) /\ Rebuilding(2))
    /\ (bld[1].pc = "done" /\ bld[2].pc = "done" /\ Normalised(1) = Normalised(2)) =>
           /\ Contents(coll) = Normalised(1)
           /\ Cardinality(coll) = Len(bld[1].docs)

\* C9: a build requests one embedding per passage, in input order, and the
\* bulk insert receives, for a passage list of length n, n ids "doc-0" ..
\* "doc-(n-1)", n embeddings, n documents and n metadatas, the k-th of each
\* belonging to the k-th passage.
C9_EmbeddingsAligned ==
    LET r == bld[1]
        n == Len(r.docs)
    IN  /\ r.prompts = SubSeq(r.docs, 1, Len(r.prompts))
        /\ Len(r.embeddings) <= n
        /\ \A k \in 1..Len(r.embeddings) : r.embeddings[k] = EmbeddingOf(r.docs[k])
        /\ r.pc \in {"add", "done"} => r.prompts = r.docs /\ Len(r.embeddings) = n
        /\ r.pc = "done" =>
             /\ r.added.called
             /\ r.added.ids = [k \in 1..n |-> "doc-" \o ToString(k - 1)]
             /\ r.added.embeddings = [k \in 1..n |-> EmbeddingOf(r.docs[k])]
             /\ r.added.documents = r.docs
             /\ r.added.metadatas = r.metas
             /\ Len(r.metas) = n

\* C9 witness: a finished build of more passages than one batch holds.
C9_Witness == bld[1].pc = "done" /\ Len(bld[1].docs) > batch_size

\* C10: a knowledge file never ends a build: a build fails only on an
\* embedding error, and a source whose file is missing or unparsable
\* contributes no passage while the other source is indexed in full.
C10_SourceProblemsNotFatal ==
    /\ bld[1].pc = "failed" => bld[1].error = "embedding"
    /\ (bld[1].pc \in {"embed", "add", "done"} /\ bld[1].kbRead.st # "json") =>
           LET mb == flatten_mb(load_mb(bld[1].mbRead)).out
           IN  /\ bld[1].docs = [k \in 1..Len(mb) |-> mb[k].text]
               /\ bld[1].metas = [k \in 1..Len(mb) |-> mb[k].meta]

(***************************************************************************)
(* Reading an assembled prompt back.                                       *)
(***************************************************************************)
\* The first position at or after from where sub occurs in s, 0 when none.
FindFrom(s, sub, from) ==
    LET hits == { p \in from..(Len(s) - Len(sub) + 1) : SubSeq(s, p, p + Len(sub) - 1) = sub }
    IN  IF hits = {} THEN 0 ELSE CHOOSE p \in hits : \A q \in hits : p <= q

KonteksHeader == "\n\n[KONTEKS]\n"
PertanyaanHeader == "\n\n[PERTANYAAN PENGGUNA]\n"
PetunjukHeader == "\n\n[PETUNJUK]\n"

\* What the prompt carries before its context header, between the context
\* header and the question header, and between the question header and the
\* closing instructions.
PromptParts(prompt) ==
    LET k == FindFrom(prompt, KonteksHeader, 1)
        q == FindFrom(prompt, PertanyaanHeader, k + Len(KonteksHeader))
        i == FindFrom(prompt, PetunjukHeader, q + Len(PertanyaanHeader))
    IN  [wellFormed |-> k > 0 /\ q > 0 /\ i > 0,
         directive |-> SubSeq(prompt, 1, k - 1),
         context |-> SubSeq(prompt, k + Len(KonteksHeader), q - 1),
         question |-> SubSeq(prompt, q + Len(PertanyaanHeader), i - 1)]

MaxPassages == 2

\* The sources values of the indexed attributions: what flatten_mb and
\* flatten_kb store for the sources of a record (always a string, or absent).
SourcesPool == { "B, A", "A, B", "A", "Kemenkes", "who, Kemenkes", "WHO", "A,", "" }

MetaPool == { JDict(<< KV("sources", JStr(x)) >>) : x \in SourcesPool } \cup { JDict(<<>>) }

\* A flat source whose records carry the given metadata.
MbAttributed(ms) ==
    FileJson(JList([k \in 1..Len(ms) |->
        JDict(<< KV("chunk_text", JStr("chunk " \o ToString(k))), KV("metadata", ms[k]) >>)]))

\* The collection a successful build_index leaves for the two files.
BuiltFrom(kb, mb) ==
    LET out == flatten_kb(load_kb(kb)).out \o flatten_mb(load_mb(mb)).out
        docs == [k \in 1..Len(out) |-> out[k].text]
        metas == [k \in 1..Len(out) |-> out[k].meta]
    IN  CollectionAdd({}, MakeIds(docs), docs, metas,
                      [k \in 1..Len(docs) |-> EmbeddingOf(docs[k])], 0)

IndexedInit ==
    /\ kbFile = FileMissing
    /\ \E n \in 0..MaxPassages : \E ms \in [1..n -> MetaPool] : mbFile = MbAttributed(ms)
    /\ coll = BuiltFrom(kbFile, mbFile)
    /\ collExists = TRUE
    /\ bld = [b \in Builders |-> IdleBuild]
    /\ appUp = FALSE
    /\ req = IdleRequest
    /\ nBuilds = 0
    /\ nEdits = 0
    /\ nRequests = 0
    /\ lastBuild = NoBuild
    /\ launch = IdleLaunch

IndexedNext == Serve

IndexedSpec == IndexedInit /\ [][IndexedNext]_vars

(***************************************************************************)
(* Source attributions, stated on positions of the string.                 *)
(***************************************************************************)
CharAt(s, p) == SubSeq(s, p, p)

\* s without the whitespace before its first and after its last
\* non-whitespace character.
Trimmed(s) ==
    LET solid == { p \in 1..Len(s) : ~IsSpace(CharAt(s, p)) }
    IN  IF solid = {} THEN ""
        ELSE SubSeq(s, CHOOSE a \in solid : \A q \in solid : a <= q,
                       CHOOSE b \in solid : \A q \in solid : q <= b)

\* The trimmed parts of s between its commas: the maximal comma-free spans.
PartsOf(s) ==
    { Trimmed(SubSeq(s, span[1], span[2])) :
        span \in { ab \in (1..(Len(s) + 1)) \X (0..Len(s)) :
                     /\ ab[2] >= ab[1] - 1
                     /\ (ab[1] = 1 \/ CharAt(s, ab[1] - 1) = ",")
                     /\ (ab[2] = Len(s) \/ CharAt(s, ab[2] + 1) = ",")
                     /\ \A p \in ab[1]..ab[2] : CharAt(s, p) # "," } }

\* The sources strings of a list of attributions; absent and empty ones
\* name no source.
SourceStrings(metas) ==
    [k \in 1..Len(metas) |->
        LET v == Get(metas[k], "sources", JNull) IN IF IsStr(v) THEN v.s ELSE ""]

NamedParts(metas) ==
    UNION { PartsOf(SourceStrings(metas)[k]) :
              k \in { j \in 1..Len(metas) : SourceStrings(metas)[j] # "" } }

Elements(seq) == { seq[k] : k \in 1..Len(seq) }
Ascending(seq) == \A i, j \in 1..Len(seq) : i < j => StrLess(seq[i], seq[j])
Perms(n) == { f \in [1..n -> 1..n] : \A i, j \in 1..n : f[i] = f[j] => i = j }
Permuted(seq, f) == [k \in 1..Len(seq) |-> seq[f[k]]]

\* C12: the sources build_rag_prompt has just returned to a grounded
\* request (which then goes on to generation) are the comma-split, trimmed
\* parts of the retrieved attributions' sources, each once, in ascending
\* order by exact string comparison; the same for every order of the
\* attributions, for every order of the parts inside a string and with an
\* attribution repeated.
C12_SourcesSortedDedup ==
    (req.pc = "generate" /\ req.endpoint = "rag") =>
        LET given == Elements(SourceStrings(req.metas))
        IN  /\ Elements(req.sources) = NamedParts(req.metas)
            /\ Ascending(req.sources)
            /\ \A f \in Perms(Len(req.metas)) :
                   build_rag_prompt(req.question, Permuted(req.docs, f),
                                    Permuted(req.metas, f)).sources = req.sources
            /\ \A k \in 1..Len(req.metas) :
                   build_rag_prompt(req.question, req.docs \o << req.docs[k] >>,
                                    req.metas \o << req.metas[k] >>).sources = req.sources
            /\ given = { "B, A", "A" } => req.sources = << "A", "B" >>
            /\ given = { "A, B", "A" } => req.sources = << "A", "B" >>
            /\ given = { "Kemenkes", "who, Kemenkes" } => req.sources = << "Kemenkes", "who" >>
            /\ given = { "WHO", "who, Kemenkes" } => req.sources = << "Kemenkes", "WHO", "who" >>

\* C12 witness: the spec's two attributions, retrieved in the order that
\* needs both the sort and the dedup.
C12_Witness ==
    /\ req.pc = "generate"
    /\ req.endpoint = "rag"
    /\ SourceStrings(req.metas) = << "who, Kemenkes", "Kemenkes" >>
    /\ req.sources = << "Kemenkes", "who" >>

\* C17: every element of the sources of a grounded request is a non-empty
\* string without whitespace at either end and without a comma.
C17_SourcesElementsClean ==
    (req.queried /\ req.endpoint = "rag") =>
        \A i \in 1..Len(req.sources) :
            LET x == req.sources[i]
            IN  /\ x # ""
                /\ ~IsSpace(CharAt(x, 1))
                /\ ~IsSpace(CharAt(x, Len(x)))
                /\ \A p \in 1..Len(x) : CharAt(x, p) # ","

(***************************************************************************)
(* One operator building from sources whose records carry sources in every *)
(* shape a knowledge file gives them.                                      *)
(***************************************************************************)
\* A record without a sources key.
Absent == [t |-> "absent"]

SourcesShapes ==
    { JList(<< JStr("WHO"), JStr("Kemenkes") >>), JList(<< JStr("WHO") >>), JList(<<>>),
      JStr("WHO, Kemenkes"), JStr(""), Absent }

WithSources(v) == IF v = Absent THEN <<>> ELSE << KV("sources", v) >>
SourcesIn(meta) == IF HasKey(meta, "sources") THEN Get(meta, "sources", JNull) ELSE Absent

\* A structured source of one topic with one section, and a flat source of
\* one record, with the given sources.
KbTopicSourced(v) ==
    JDict(<< KV("topic_id", JStr("T3")), KV("topic_name", JStr("Flu")) >>
          \o WithSources(v)
          \o << KV("data", JDict(<< KV("saran", JStr("istirahat")) >>)) >>)
KbSourced(v) == FileJson(JDict(<< KV("knowledge_base", JList(<< KbTopicSourced(v) >>)) >>))

MbRecordSourced(v) ==
    JDict(<< KV("chunk_text", JStr("Tidur cukup")), KV("metadata", JDict(WithSources(v))) >>)
MbSourced(v) == FileJson(JList(<< MbRecordSourced(v) >>))

\* A structured source with every kind of payload: a mapping with a sequence,
\* a string and a number, a sequence, a scalar, an empty mapping, and a topic
\* without sections.
KbPayloads ==
    FileJson(JDict(<< KV("knowledge_base", JList(<<
        JDict(<< KV("topic_id", JStr("T4")),
                 KV("topic_name", JStr("Flu")),
                 KV("sources", JStr("WHO")),
                 KV("data", JDict(<<
                     KV("gejala", JDict(<< KV("tanda", JList(<< JStr("pilek"), JStr("bersin") >>)),
                                           KV("durasi", JStr("3 hari")),
                                           KV("skor", JNum(2)) >>)),
                     KV("obat", JList(<< JStr("istirahat"), JStr("minum") >>)),
                     KV("catatan", JStr("ringan")),
                     KV("kosong", JDict(<<>>)) >>)) >>),
        JDict(<< KV("topic_id", JStr("T5")),
                 KV("topic_name", JStr("Pusing")),
                 KV("data", JDict(<<>>)) >>),
        JDict(<< KV("topic_id", JStr("T6")),
                 KV("topic_name", JStr("Maag")),
                 KV("sources", JList(<< JStr("Kemenkes") >>)),
                 KV("data", JDict(<< KV("pantangan", JList(<< JStr("pedas") >>)) >>)) >>)
        >>)) >>))

KbNormal ==
    { KbSourced(v) : v \in SourcesShapes } \cup { KbDemam, KbBatuk, KbPayloads, FileMissing }
\* A flat source with well-formed records between records whose chunk_text
\* is empty, missing, a number and a list; and flat sources with a record
\* that is no mapping, and with a metadata that is none.
MbMixed ==
    FileJson(JList(<<
        JDict(<< KV("chunk_text", JStr("Makan teratur")), KV("metadata", JDict(<<>>)) >>),
        JDict(<< KV("chunk_text", JStr("")), KV("metadata", JDict(<<>>)) >>),
        JDict(<< KV("metadata", JDict(<< KV("sources", JStr("WHO")) >>)) >>),
        JDict(<< KV("chunk_text", JNum(7)), KV("metadata", JDict(<<>>)) >>),
        JDict(<< KV("chunk_text", JList(<< JStr("a") >>)) >>),
        JDict(<< KV("chunk_text", JStr(" Olahraga ringan ")) >>) >>))

MbStrayRecord ==
    FileJson(JList(<<
        JDict(<< KV("chunk_text", JStr("Makan teratur")), KV("metadata", JDict(<<>>)) >>),
        JStr("Olahraga ringan") >>))

MbNormal ==
    { MbSourced(v) : v \in SourcesShapes }
        \cup { MbMinum, MbMixed, MbStrayRecord, MbNullMeta, FileMissing }

NormalizerInit ==
    /\ kbFile \in KbNormal
    /\ mbFile \in MbNormal
    /\ InitCommon

NormalizerNext == Build(1)

NormalizerSpec == NormalizerInit /\ [][NormalizerNext]_vars

\* Both sources have been normalised by build b.
Flattened(b) == bld[b].pc \in {"embed", "stalled", "add", "done"}

\* The passages of flatten_kb carry a section, those of flatten_mb do not.
FromKb(meta) == HasKey(meta, "section")

\* The sources flatten_kb / flatten_mb store for a record whose sources is v.
Failed == [t |-> "failed"]
KbAgain(v) ==
    LET r == flatten_kb(JList(<< KbTopicSourced(v) >>))
    IN  IF r.raised \/ Len(r.out) # 1 THEN Failed ELSE SourcesIn(r.out[1].meta)
MbAgain(v) ==
    LET r == flatten_mb(JList(<< MbRecordSourced(v) >>))
    IN  IF r.raised \/ Len(r.out) # 1 THEN Failed ELSE SourcesIn(r.out[1].meta)

\* C13: the sources a passage was given by flatten_kb (by flatten_mb) is
\* what flatten_kb (flatten_mb) gives a record that already carries that
\* value: normalising a normalised sources changes nothing.
C13_SourcesNormalisationIdempotent ==
    Flattened(1) =>
        \A k \in 1..Len(bld[1].metas) :
            LET v == SourcesIn(bld[1].metas[k])
            IN  IF FromKb(bld[1].metas[k]) THEN KbAgain(v) = v ELSE MbAgain(v) = v

\* C13 witness: a build that normalised a list of two sources from each file.
C13_Witness ==
    /\ Flattened(1)
    /\ bld[1].kbRead = KbSourced(JList(<< JStr("WHO"), JStr("Kemenkes") >>))
    /\ bld[1].mbRead = MbSourced(JList(<< JStr("WHO"), JStr("Kemenkes") >>))
    /\ \A k \in 1..2 : SourcesIn(bld[1].metas[k]) = JStr("WHO, Kemenkes")

\* The string the sources v of a record is to be stored as: the elements
\* joined by ", ", the string itself, and the empty string when absent.
RECURSIVE CommaJoined(_)
CommaJoined(elements) ==
    IF Len(elements) = 0 THEN ""
    ELSE CommaJoined(SubSeq(elements, 1, Len(elements) - 1))
         \o (IF Len(elements) > 1 THEN ", " ELSE "") \o elements[Len(elements)].s

StoredAs(v) ==
    IF v = Absent THEN JStr("")
    ELSE IF IsList(v) THEN JStr(CommaJoined(v.l))
    ELSE v

\* C14: every passage of flatten_kb and of flatten_mb carries a sources
\* that is a string, never a list and never missing: for a record whose
\* sources is a list of strings, a string or absent, the elements joined by
\* ", ", the string, or the empty string.
C14_SourcesAlwaysString ==
    Flattened(1) =>
        /\ \A k \in 1..Len(bld[1].metas) :
               /\ HasKey(bld[1].metas[k], "sources")
               /\ IsStr(Get(bld[1].metas[k], "sources", JNull))
        /\ \A v \in SourcesShapes :
               /\ bld[1].kbRead = KbSourced(v) => SourcesIn(bld[1].metas[1]) = StoredAs(v)
               /\ bld[1].mbRead = MbSourced(v) =>
                      SourcesIn(bld[1].metas[Len(bld[1].metas)]) = StoredAs(v)

(***************************************************************************)
(* The passages of a structured source, stated by position.                *)
(***************************************************************************)
TopicsOf(file) == IF file.st = "json" THEN Get(file.j, "knowledge_base", JList(<<>>)).l ELSE <<>>
SectionsOf(topic) == Get(topic, "data", JDict(<<>>)).d

\* The sections of the topics before topic i.
RECURSIVE SectionsBefore(_, _)
SectionsBefore(topics, i) ==
    IF i <= 1 THEN 0
    ELSE SectionsBefore(topics, i - 1) + Len(SectionsOf(topics[i - 1]))

\* The lines a value of a mapping payload takes, and the lines of the items
\* before item i.
Width(v) == IF IsList(v) THEN Len(v.l) ELSE 1

RECURSIVE LinesBefore(_, _)
LinesBefore(items, i) ==
    IF i <= 1 THEN 0 ELSE LinesBefore(items, i - 1) + Width(items[i - 1].v)

\* The number of lines a payload is serialised to, and its n-th line.
LineCount(payload) ==
    IF IsDict(payload) THEN LinesBefore(payload.d, Len(payload.d) + 1)
    ELSE IF IsList(payload) THEN Len(payload.l)
    ELSE 1

LineAt(payload, n) ==
    IF IsDict(payload)
    THEN LET i == CHOOSE x \in 1..Len(payload.d) :
                      /\ LinesBefore(payload.d, x) < n
                      /\ n <= LinesBefore(payload.d, x) + Width(payload.d[x].v)
             item == payload.d[i]
         IN  item.k \o ": " \o (IF IsList(item.v)
                                 THEN PyStr(item.v.l[n - LinesBefore(payload.d, i)])
                                 ELSE PyStr(item.v))
    ELSE IF IsList(payload) THEN PyStr(payload.l[n])
    ELSE PyStr(payload)

\* C15: for every topic of the structured source and every section of its
\* data there is exactly one passage, in order; its text is not empty, its
\* first line is "[<topic_name> / <section>]", and the lines after it are
\* the payload's: a mapping gives, key by key, one "key: element" line per
\* element of a sequence value and one "key: value" line otherwise; a
\* sequence gives one line per element; a scalar gives one line.
C15_FlattenKbFormat ==
    Flattened(1) =>
        LET topics == TopicsOf(bld[1].kbRead)
            fromKb == { k \in 1..Len(bld[1].metas) : FromKb(bld[1].metas[k]) }
        IN  /\ fromKb = 1..SectionsBefore(topics, Len(topics) + 1)
            /\ \A i \in 1..Len(topics) : \A j \in 1..Len(SectionsOf(topics[i])) :
                   LET text == bld[1].docs[SectionsBefore(topics, i) + j]
                       section == SectionsOf(topics[i])[j]
                       lines == Split(text, "\n")
                       n == LineCount(section.v)
                   IN  /\ text # ""
                       /\ lines[1] = "[" \o Get(topics[i], "topic_name", JNull).s
                                         \o " / " \o section.k \o "]"
                       /\ IF n = 0 THEN lines = << lines[1], "" >>
                          ELSE /\ Len(lines) = n + 1
                               /\ \A x \in 1..n : lines[x + 1] = LineAt(section.v, x)
            /\ bld[1].kbRead = KbDemam =>
                   /\ bld[1].docs[1] = "[Demam / gejala]\ntanda: suhu tinggi\ntanda: lemas"
                   /\ bld[1].docs[2] = "[Demam / saran]\nistirahat"

\* C15 witness: the spec's scenario 1 has been flattened.
C15_Witness ==
    /\ Flattened(1)
    /\ bld[1].kbRead = KbDemam
    /\ Split(bld[1].docs[1], "\n") = << "[Demam / gejala]", "tanda: suhu tinggi", "tanda: lemas" >>

(***************************************************************************)
(* The passages of a flat source, stated by position.                      *)
(***************************************************************************)
RecordsOf(file) == IF file.st = "json" /\ IsList(file.j) THEN file.j.l ELSE <<>>

\* The records that are passed on: a mapping whose chunk_text is a
\* non-empty string.
WellFormed(record) ==
    /\ IsDict(record)
    /\ HasKey(record, "chunk_text")
    /\ IsStr(Get(record, "chunk_text", JNull))
    /\ Get(record, "chunk_text", JNull).s # ""

\* How many of the first n records are passed on.
RECURSIVE KeptBefore(_, _)
KeptBefore(records, n) ==
    IF n = 0 THEN 0
    ELSE KeptBefore(records, n - 1) + (IF WellFormed(records[n]) THEN 1 ELSE 0)

\* C16: flatten_mb does not raise; it passes on, in order, one passage for
\* each record whose chunk_text is a non-empty string, the text being the
\* chunk_text itself, and leaves out every other record.
C16_FlattenMbSkipsMalformed ==
    /\ bld[1].error # "flatten_mb"
    /\ Flattened(1) =>
           LET records == RecordsOf(bld[1].mbRead)
               kb == Cardinality({ k \in 1..Len(bld[1].metas) : FromKb(bld[1].metas[k]) })
           IN  /\ Len(bld[1].docs) = kb + KeptBefore(records, Len(records))
               /\ \A r \in 1..Len(records) :
                      WellFormed(records[r]) =>
                          bld[1].docs[kb + KeptBefore(records, r)]
                              = Get(records[r], "chunk_text", JNull).s
               /\ \A k \in 1..Len(bld[1].docs) : bld[1].docs[k] # ""

(***************************************************************************)
(* A run of a startup script.                                              *)
(***************************************************************************)
LaunchInit ==
    /\ kbFile = FileMissing
    /\ mbFile = FileMissing
    /\ InitCommon

LaunchNext == Launch

LaunchSpec == LaunchInit /\ [][LaunchNext]_vars

Started == { c \in Children : launch.child[c] # "none" }
Stopped(c) == launch.child[c] \in {"exited", "terminated", "killed"}

\* C18: when main is over after it started a child, every child it started
\* has been stopped: terminate() was called on it, and kill() if it had not
\* exited by then; main returns 1 when a child died and when .env is
\* missing (and then it started no child), and 0 after Ctrl+C.
C18_ChildrenTerminated ==
    launch.pc \in {"returned", "raised"} =>
        /\ \A c \in Started : Stopped(c) /\ c \in launch.terminateCalled
        /\ launch.cause = "child_died" => launch.result = 1
        /\ launch.cause = "no_env" => launch.result = 1 /\ Started = {}
        /\ (launch.cause = "interrupt" /\ launch.pc = "returned") => launch.result = 0

====
